---- MODULE Spec2Model ----
(***************************************************************************)
(* Model of src/src/extension.ts: the UnicodeMaths controller of the       *)
(* unicode-math extension.  A string is a sequence of UTF-16 code units,   *)
(* each written as a one-element TLA+ string; columns and indices are      *)
(* 0-based as in the source.  A JavaScript value that may be null or       *)
(* undefined is a record [isNull, str].                                    *)
(***************************************************************************)
EXTENDS Integers, Sequences, FiniteSets, TLC

VARIABLES document, selections, activeTextEditor,
          handler, arg, located, raised, items, edits, c, issued,
          word, changed

vars == <<document, selections, activeTextEditor,
          handler, arg, located, raised, items, edits, c, issued,
          word, changed>>

(* ------------------------------ bounds --------------------------------- *)
MaxLen == 3
MaxCursors == 2
MaxTok == 4

(* --------------------------- characters -------------------------------- *)
BS == "\\"
SP == " "
\* characters a document line is made of
Chars == {BS, "_", ":", SP, "i", "n"}
\* characters a token handed to doWord is made of
TokenChars == Chars \cup {"^", "b", "2", "Q"}

SPACE_KEY == "space"
TAB_KEY == "tab"
Keys == {TAB_KEY, SPACE_KEY}

(* ------------------------- JavaScript values --------------------------- *)
Null == [isNull |-> TRUE, str |-> <<>>]
Str(s) == [isNull |-> FALSE, str |-> s]
\* truthiness of a string-or-null value: null, undefined and "" are falsy
Truthy(v) == ~v.isNull /\ v.str # <<>>
\* a || b
OrElse(a, b) == IF Truthy(a) THEN a ELSE b

SetMax(S) == CHOOSE x \in S : \A y \in S : y <= x
SetMin(S) == CHOOSE x \in S : \A y \in S : x <= y

\* String.prototype.charAt
charAt(s, i) == IF i >= 0 /\ i < Len(s) THEN <<s[i + 1]>> ELSE <<>>
\* String.prototype.slice(start), negative start counts from the end
slice(s, start) ==
    LET from == IF start < 0 THEN (IF Len(s) + start < 0 THEN 0 ELSE Len(s) + start)
                ELSE start
    IN IF from >= Len(s) THEN <<>> ELSE SubSeq(s, from + 1, Len(s))
\* String.prototype.lastIndexOf for a one-character needle
lastIndexOf(s, ch) ==
    LET I == {i \in 1..Len(s) : s[i] = ch}
    IN IF I = {} THEN -1 ELSE SetMax(I) - 1
IsWhitespace(ch) == ch = SP
\* String.prototype.trim
trim(s) ==
    LET I == {i \in 1..Len(s) : ~IsWhitespace(s[i])}
    IN IF I = {} THEN <<>> ELSE SubSeq(s, SetMin(I), SetMax(I))
\* String.prototype.startsWith
startsWith(s, p) == Len(p) <= Len(s) /\ SubSeq(s, 1, Len(p)) = p
\* String.prototype.includes for a one-character needle
includes(s, ch) == \E i \in 1..Len(s) : s[i] = ch
\* String.prototype.split(sep) for a one-character separator
RECURSIVE split(_, _)
split(s, sep) ==
    LET I == {i \in 1..Len(s) : s[i] = sep}
    IN IF I = {} THEN <<s>>
       ELSE <<SubSeq(s, 1, SetMin(I) - 1)>> \o split(SubSeq(s, SetMin(I) + 1, Len(s)), sep)
\* Array.prototype.join('')
RECURSIVE join(_)
join(parts) == IF parts = <<>> THEN <<>> ELSE Head(parts) \o join(Tail(parts))

(* ------------------------------ tables --------------------------------- *)
\* entries of the superscript table whose key is in TokenChars
sups == << [key |-> <<"b">>, value |-> <<"u1D47">>],
           [key |-> <<"i">>, value |-> <<"u2071">>],
           [key |-> <<"2">>, value |-> <<"u00B2">>],
           [key |-> <<"n">>, value |-> <<"u207F">>] >>
\* entries of the subscript table whose key is in TokenChars
subs == << [key |-> <<"2">>, value |-> <<"u2082">>],
           [key |-> <<"i">>, value |-> <<"u1D62">>],
           [key |-> <<"n">>, value |-> <<"u2099">>] >>
\* the primary table, Symbols.default: whole-token codes and the
\* per-character bold entries, in insertion order
Symbols == << [key |-> <<BS, "i", "n">>, value |-> <<"u2208">>],
              [key |-> <<BS, "n", "i">>, value |-> <<"u220B">>],
              [key |-> <<BS, "m", "b", "f", "b">>, value |-> <<"uD835", "uDC1B">>],
              [key |-> <<BS, "m", "b", "f", "i">>, value |-> <<"uD835", "uDC22">>],
              [key |-> <<BS, "m", "b", "f", "n">>, value |-> <<"uD835", "uDC27">>] >>
\* property access table[k] on a plain object
Lookup(table, k) ==
    IF \E i \in DOMAIN table : table[i].key = k
    THEN Str(table[CHOOSE i \in DOMAIN table : table[i].key = k].value)
    ELSE Null
codes(k) == Lookup(Symbols, k)
keys == [i \in DOMAIN Symbols |-> Symbols[i].key]

(* --------------------------- Token Locator ----------------------------- *)
NoRange == [isNull |-> TRUE, start |-> 0, end |-> 0]
Range(start, end) == [isNull |-> FALSE, start |-> start, end |-> end]
\* document.getText(new Range(new Position(line, 0), position))
getText(doc, position) ==
    IF position <= 0 THEN <<>>
    ELSE IF position >= Len(doc) THEN doc ELSE SubSeq(doc, 1, position)

\* getWordRangeAtPosition with the span ended at the cursor, not at the end
\* of the trimmed word
getWordRangeEndAtCursor(doc, position) ==
    LET line  == getText(doc, position)
        slash == lastIndexOf(line, BS)
        w     == trim(slice(line, slash))
    IN IF slash < 0
       THEN [threw |-> TRUE, range |-> NoRange, word |-> w]
       ELSE [threw |-> FALSE, range |-> Range(slash, position), word |-> w]

\* threw: new Position(line, character) rejects a negative character
getWordRangeAtPosition(doc, position) ==
    LET line  == getText(doc, position)
        slash == lastIndexOf(line, BS)
        w     == trim(slice(line, slash))
    IN IF slash < 0
       THEN [threw |-> TRUE, range |-> NoRange, word |-> w]
       ELSE [threw |-> FALSE, range |-> Range(slash, slash + Len(w)), word |-> w]

\* evalPosition without the column-0 return and without the try/catch
evalPositionNoCatch(doc, position) ==
    LET r == getWordRangeAtPosition(doc, position)
    IN IF r.threw
       THEN [target |-> NoRange, word |-> Null, raised |-> TRUE]
       ELSE IF r.word = <<>> \/ ~startsWith(r.word, <<BS>>)
            THEN [target |-> NoRange, word |-> Null, raised |-> FALSE]
       ELSE [target |-> r.range, word |-> Str(r.word), raised |-> FALSE]

\* evalPosition with the span started one column after the backslash
evalPositionOffByOne(doc, position) ==
    IF position = 0 THEN [target |-> NoRange, word |-> Null, raised |-> FALSE]
    ELSE LET r == getWordRangeAtPosition(doc, position)
         IN IF r.threw \/ r.word = <<>> \/ ~startsWith(r.word, <<BS>>)
            THEN [target |-> NoRange, word |-> Null, raised |-> FALSE]
            ELSE [target |-> Range(r.range.start + 1, r.range.end + 1),
                  word |-> Str(r.word), raised |-> FALSE]

NoMatch == [target |-> NoRange, word |-> Null, raised |-> FALSE]
evalPosition(doc, position) ==
    IF position = 0 THEN NoMatch
    ELSE LET r == getWordRangeAtPosition(doc, position)
         IN IF r.threw THEN NoMatch
            ELSE IF r.word = <<>> \/ ~startsWith(r.word, <<BS>>) THEN NoMatch
            ELSE [target |-> r.range, word |-> Str(r.word), raised |-> FALSE]

(* --------------------- Token Classifier & Expander --------------------- *)
\* target.split('').map(c => mapper[c] || c).join('')
mapChars(target, prefix, table) ==
    join([i \in 1..Len(target) |->
            OrElse(Lookup(table, prefix \o <<target[i]>>), Str(<<target[i]>>)).str])

\* mapToSubSup with the no-change test made against the whole word
mapToSubSupCompareWord(w, mapper) ==
    LET target == slice(w, 2)
        newStr == mapChars(target, <<>>, mapper)
    IN IF newStr = w THEN Null ELSE Str(newStr)

mapToSubSup(w, mapper) ==
    LET target == slice(w, 2)
        newStr == mapChars(target, <<>>, mapper)
    IN IF newStr = target THEN Null ELSE Str(newStr)

\* mapToBoldIt with the italic prefix whatever the flag
mapToBoldItAlwaysItalic(w, bold) ==
    LET target == slice(w, 3)
        newStr == mapChars(target, <<BS, "m", "i", "t">>, Symbols)
    IN IF newStr = target THEN Null ELSE Str(newStr)

mapToBoldIt(w, bold) ==
    LET target     == slice(w, 3)
        codePrefix == IF bold THEN <<BS, "m", "b", "f">> ELSE <<BS, "m", "i", "t">>
        newStr     == mapChars(target, codePrefix, Symbols)
    IN IF newStr = target THEN Null ELSE Str(newStr)

\* mapTo accepting any number of colons after the first
mapToAtLeastTwoParts(w) ==
    LET modifier == split(w, ":")
    IN IF Len(modifier) >= 2
       THEN LET mod    == modifier[1]
                newStr == modifier[2]
                modStr == mapChars(newStr, mod, Symbols)
            IN IF modStr = newStr THEN Null ELSE Str(modStr)
       ELSE Null

\* mapTo with the modifier taken without its backslash
mapToModWithoutBackslash(w) ==
    LET modifier == split(w, ":")
    IN IF Len(modifier) = 2
       THEN LET mod    == slice(modifier[1], 1)
                newStr == modifier[2]
                modStr == mapChars(newStr, mod, Symbols)
            IN IF modStr = newStr THEN Null ELSE Str(modStr)
       ELSE Null

mapTo(w) ==
    LET modifier == split(w, ":")
    IN IF Len(modifier) = 2
       THEN LET mod    == modifier[1]
                newStr == modifier[2]
                modStr == mapChars(newStr, mod, Symbols)
            IN IF modStr = newStr THEN Null ELSE Str(modStr)
       ELSE Null

\* doWord with the direct lookup falling back to the word itself
doWordEchoOnMiss(w) ==
    LET startChar == charAt(w, 1)
    IN IF startChar = <<"_">> THEN mapToSubSup(w, subs)
       ELSE IF startChar = <<"^">> THEN mapToSubSup(w, sups)
       ELSE IF startsWith(w, <<BS, "i", ":">>) THEN Str(<<"f", "o", "o">>)
       ELSE IF startsWith(w, <<BS, "b", ":">>) THEN mapToBoldIt(w, TRUE)
       ELSE IF ~startsWith(w, <<BS, ":">>) /\ startsWith(w, <<BS>>) /\ includes(w, ":")
            THEN mapTo(w)
       ELSE OrElse(codes(w), Str(w))

doWord(w) ==
    LET startChar == charAt(w, 1)
    IN IF startChar = <<"_">> THEN mapToSubSup(w, subs)
       ELSE IF startChar = <<"^">> THEN mapToSubSup(w, sups)
       ELSE IF startsWith(w, <<BS, "i", ":">>) THEN Str(<<"f", "o", "o">>)
       ELSE IF startsWith(w, <<BS, "b", ":">>) THEN mapToBoldIt(w, TRUE)
       ELSE IF ~startsWith(w, <<BS, ":">>) /\ startsWith(w, <<BS>>) /\ includes(w, ":")
            THEN mapTo(w)
       ELSE OrElse(codes(w), Null)

(* -------------------------- Completion Matcher ------------------------- *)
CompletionItem(key, target) ==
    [label |-> key, detail |-> codes(key), insertText |-> codes(key), range |-> target]

\* provideCompletionItems comparing only the first character of the word
provideCompletionItemsLooseMatch(doc, position) ==
    LET m == evalPosition(doc, position)
    IN IF m.raised THEN [items |-> <<>>, located |-> <<m>>, raised |-> TRUE]
       ELSE IF m.target.isNull \/ ~Truthy(m.word)
            THEN [items |-> <<>>, located |-> <<m>>, raised |-> FALSE]
       ELSE LET matches == SelectSeq(keys, LAMBDA k :
                               startsWith(k, SubSeq(m.word.str, 1, 1)))
            IN [items   |-> [i \in DOMAIN matches |-> CompletionItem(matches[i], m.target)],
                located |-> <<m>>, raised |-> FALSE]

provideCompletionItems(doc, position) ==
    LET m == evalPosition(doc, position)
    IN IF m.raised THEN [items |-> <<>>, located |-> <<m>>, raised |-> TRUE]
       ELSE IF m.target.isNull \/ ~Truthy(m.word)
            THEN [items |-> <<>>, located |-> <<m>>, raised |-> FALSE]
       ELSE LET matches == SelectSeq(keys, LAMBDA k : startsWith(k, m.word.str))
            IN [items   |-> [i \in DOMAIN matches |-> CompletionItem(matches[i], m.target)],
                located |-> <<m>>, raised |-> FALSE]

(* ------------------------------- commit -------------------------------- *)
\* the command doKey() executes
doKey(key) ==
    IF key = SPACE_KEY THEN [command |-> "type", text |-> <<SP>>]
    ELSE [command |-> key, text |-> <<>>]

\* the replacement computed for one located match, null when none
changedOf(m) ==
    IF ~m.target.isNull /\ Truthy(m.word) THEN doWord(m.word.str) ELSE Null

\* editor.delete(target); editor.insert(target.start, changed)
editsOf(m) ==
    IF Truthy(changedOf(m))
    THEN << [op |-> "delete", start |-> m.target.start, end |-> m.target.end, text |-> <<>>],
            [op |-> "insert", start |-> m.target.start, end |-> m.target.start,
             text |-> changedOf(m).str] >>
    ELSE <<>>

\* result of commit(key): the matches evaluated, the edit built, the flag c
\* and the commands executed
commit(key, editor, doc, sels) ==
    IF key = "" \/ ~editor
    THEN [located |-> <<>>, edits |-> <<>>, c |-> FALSE, issued |-> <<>>, raised |-> FALSE]
    ELSE LET ms   == [i \in DOMAIN sels |-> evalPosition(doc, sels[i])]
             flag == \E i \in DOMAIN ms : Truthy(changedOf(ms[i]))
             fail == \E i \in DOMAIN ms : ms[i].raised
         IN [located |-> ms,
             edits   |-> join([i \in DOMAIN ms |-> editsOf(ms[i])]),
             c       |-> flag,
             issued  |-> IF ~fail /\ (~flag \/ key = SPACE_KEY) THEN <<doKey(key)>> ELSE <<>>,
             raised  |-> fail]

(* ------------------------------ the editor ----------------------------- *)
RECURSIVE SeqsUpTo(_, _)
SeqsUpTo(S, n) ==
    IF n = 0 THEN {<<>>}
    ELSE LET R == SeqsUpTo(S, n - 1)
         IN R \cup {Append(s, x) : s \in {r \in R : Len(r) = n - 1}, x \in S}

Lines == SeqsUpTo(Chars, MaxLen)
\* one cursor per selection, each at its own column of the line
Selections(doc) ==
    {s \in SeqsUpTo(0..Len(doc), MaxCursors) :
        s # <<>> /\ \A i, j \in DOMAIN s : i # j => s[i] # s[j]}
Tokens == {<<BS>> \o s : s \in SeqsUpTo(TokenChars, MaxTok)}

NoOutput ==
    /\ handler = "idle" /\ arg = "" /\ located = <<>> /\ raised = FALSE
    /\ items = <<>> /\ edits = <<>> /\ c = FALSE /\ issued = <<>>

Init ==
    /\ activeTextEditor \in BOOLEAN
    /\ document \in (IF activeTextEditor THEN Lines ELSE {<<>>})
    /\ selections \in (IF activeTextEditor THEN Selections(document) ELSE {<<>>})
    /\ NoOutput
    /\ word = <<>> /\ changed = Null

ProvideCompletionItems ==
    /\ activeTextEditor
    /\ \E position \in 0..Len(document) :
         LET r == provideCompletionItems(document, position)
         IN /\ handler' = "provideCompletionItems"
            /\ arg' = position
            /\ located' = r.located
            /\ raised' = r.raised
            /\ items' = r.items
    /\ edits' = <<>> /\ c' = FALSE /\ issued' = <<>>
    /\ UNCHANGED <<document, selections, activeTextEditor, word, changed>>

Commit ==
    /\ \E key \in Keys :
         LET r == commit(key, activeTextEditor, document, selections)
         IN /\ handler' = "commit"
            /\ arg' = key
            /\ located' = r.located
            /\ raised' = r.raised
            /\ edits' = r.edits
            /\ c' = r.c
            /\ issued' = r.issued
    /\ items' = <<>>
    /\ UNCHANGED <<document, selections, activeTextEditor, word, changed>>

Next == ProvideCompletionItems \/ Commit

Spec == Init /\ [][Next]_vars

(* ---------------------- doWord over every token ------------------------ *)
InitExpand ==
    /\ activeTextEditor = FALSE /\ document = <<>> /\ selections = <<>>
    /\ NoOutput
    /\ word \in Tokens /\ changed = Null

DoWord ==
    /\ handler = "idle"
    /\ handler' = "doWord"
    /\ changed' = doWord(word)
    /\ UNCHANGED <<document, selections, activeTextEditor, arg, located, raised,
                   items, edits, c, issued, word>>

NextExpand == DoWord

SpecExpand == InitExpand /\ [][NextExpand]_vars

(* ------------------------------ properties ----------------------------- *)
\* the column at which the i-th recorded match was evaluated
PosOf(i) == IF handler = "provideCompletionItems" THEN arg ELSE selections[i]
\* the text of the line before column p
Before(p) == [i \in 1..p |-> document[i]]
HasBackslash(s) == \E i \in 1..Len(s) : s[i] = BS
IsMatch(m) == ~m.target.isNull
Absent(m) == m.target.isNull /\ m.word.isNull /\ ~m.raised
\* number of blanks at the end of s
TrailingBlanks(s) ==
    Cardinality({i \in 1..Len(s) : \A j \in i..Len(s) : s[j] = SP})
IsPrefix(p, s) == Len(p) <= Len(s) /\ \A i \in 1..Len(p) : p[i] = s[i]
Count(s, ch) == Cardinality({i \in 1..Len(s) : s[i] = ch})
InTable(table, k) == \E i \in DOMAIN table : table[i].key = k
ValueOf(table, k) == table[CHOOSE i \in DOMAIN table : table[i].key = k].value
\* s with every character that has an entry under prefix replaced by the
\* entry's value
RECURSIVE Mapped(_, _, _)
Mapped(s, prefix, table) ==
    IF s = <<>> THEN <<>>
    ELSE (IF InTable(table, Append(prefix, Head(s)))
          THEN ValueOf(table, Append(prefix, Head(s)))
          ELSE <<Head(s)>>) \o Mapped(Tail(s), prefix, table)
\* the expansion the character-level rules prescribe
Expected(s, prefix, table) ==
    IF Mapped(s, prefix, table) = s THEN Null ELSE Str(Mapped(s, prefix, table))

\* C1: at column 0, or with no backslash before the cursor, locate returns
\* absent and raises nothing.
C1_AbsentWithoutBackslash ==
    /\ ~raised
    /\ \A i \in DOMAIN located :
         (PosOf(i) = 0 \/ ~HasBackslash(Before(PosOf(i)))) => Absent(located[i])

\* a non-empty, backslash-free text before the cursor was evaluated to absent
C1_Witness ==
    \E i \in DOMAIN located :
        /\ PosOf(i) > 0 /\ ~HasBackslash(Before(PosOf(i)))
        /\ Absent(located[i])

\* C2 as stated: a match's token starts with a backslash, its span starts at
\* the last backslash before the cursor and ends exactly at the cursor column.
C2_SpanEndsAtCursor ==
    \A i \in DOMAIN located :
        IsMatch(located[i]) =>
            LET m == located[i]
                p == PosOf(i)
            IN /\ Head(m.word.str) = BS
               /\ document[m.target.start + 1] = BS
               /\ ~HasBackslash(SubSeq(document, m.target.start + 2, p))
               /\ m.target.end = p

\* C2 amended: a match's token starts with a backslash, its span starts at the
\* last backslash before the cursor and ends at the cursor column less the
\* blanks that end the text before the cursor.
C2_SpanEndsAtTrimmedToken ==
    \A i \in DOMAIN located :
        IsMatch(located[i]) =>
            LET m == located[i]
                p == PosOf(i)
            IN /\ Head(m.word.str) = BS
               /\ document[m.target.start + 1] = BS
               /\ ~HasBackslash(SubSeq(document, m.target.start + 2, p))
               /\ m.target.end = p - TrailingBlanks(Before(p))

\* a match whose token is followed by a blank before the cursor
C2_Witness ==
    \E i \in DOMAIN located :
        /\ IsMatch(located[i])
        /\ Len(located[i].word.str) >= 2
        /\ TrailingBlanks(Before(PosOf(i))) >= 1
        /\ located[i].target.end < PosOf(i)

\* C9: a match's span lies within [0, cursor], is as long as the token, and
\* the line's text over the span is the token.
C9_SpanCoversToken ==
    \A i \in DOMAIN located :
        IsMatch(located[i]) =>
            LET m == located[i]
            IN /\ 0 <= m.target.start
               /\ m.target.start <= m.target.end
               /\ m.target.end <= PosOf(i)
               /\ m.target.end - m.target.start = Len(m.word.str)
               /\ SubSeq(document, m.target.start + 1, m.target.end) = m.word.str

\* commit deleted the span of a located token of three characters
C9_Witness ==
    /\ handler = "commit" /\ c
    /\ \E i \in DOMAIN located :
        /\ IsMatch(located[i])
        /\ Len(located[i].word.str) >= 3
        /\ \E j \in DOMAIN edits :
             /\ edits[j].op = "delete"
             /\ edits[j].start = located[i].target.start
             /\ edits[j].end = located[i].target.end

\* C8: the completion list holds one item for each key the located token is a
\* prefix of and none for any other key; an item's label is the key, its
\* detail and insert text are the key's expansion and its range is the located
\* span; with no token located the list is empty; nothing is raised.
C8_CompletionsArePrefixMatches ==
    handler = "provideCompletionItems" =>
        LET m == located[1]
        IN /\ ~raised
           /\ IF IsMatch(m)
              THEN /\ \A k \in DOMAIN Symbols :
                        Cardinality({j \in DOMAIN items : items[j].label = Symbols[k].key})
                          = IF IsPrefix(m.word.str, Symbols[k].key) THEN 1 ELSE 0
                   /\ \A j \in DOMAIN items :
                        /\ InTable(Symbols, items[j].label)
                        /\ items[j].detail = Str(ValueOf(Symbols, items[j].label))
                        /\ items[j].insertText = Str(ValueOf(Symbols, items[j].label))
                        /\ items[j].range = m.target
              ELSE items = <<>>

\* a token longer than the backslash matched some keys and not others
C8_Witness ==
    /\ handler = "provideCompletionItems"
    /\ IsMatch(located[1])
    /\ Len(located[1].word.str) >= 2
    /\ Len(items) >= 1
    /\ Len(items) < Len(Symbols)

\* C10: every commit(space) types one space; every commit of another key
\* executes that key's command once when no token was replaced and not at all
\* when one was.
C10_SpaceAlwaysPropagated ==
    handler = "commit" =>
        IF arg = SPACE_KEY
        THEN issued = << [command |-> "type", text |-> <<SP>>] >>
        ELSE /\ ~c => issued = << [command |-> arg, text |-> <<>>] >>
             /\ c => issued = <<>>

\* the token handed to doWord, less its first two and first three characters
Suffix2 == SubSeq(word, 3, Len(word))
Suffix3 == SubSeq(word, 4, Len(word))
SecondChar == IF Len(word) >= 2 THEN word[2] ELSE ""
ReachesGeneric ==
    /\ SecondChar \notin {"_", "^"}
    /\ ~IsPrefix(<<BS, "i", ":">>, word)
    /\ ~IsPrefix(<<BS, "b", ":">>, word)
    /\ ~IsPrefix(<<BS, ":">>, word)
    /\ Count(word, ":") >= 1

\* C3: the expansion of \_s (\^s) is s mapped character by character through
\* the Subscript (Superscript) table, of the same length as s, and absent
\* exactly when the mapping changes nothing.
C3_SubSupCharByChar ==
    (handler = "doWord" /\ SecondChar \in {"_", "^"}) =>
        LET table == IF SecondChar = "_" THEN subs ELSE sups
        IN /\ changed = Expected(Suffix2, <<>>, table)
           /\ ~changed.isNull => Len(changed.str) = Len(Suffix2)
           /\ ~changed.isNull =>
                \A i \in 1..Len(Suffix2) :
                    changed.str[i] = IF InTable(table, <<Suffix2[i]>>)
                                     THEN ValueOf(table, <<Suffix2[i]>>)[1]
                                     ELSE Suffix2[i]

\* a subscript token with a colon, a mapped and an unmapped character
C3_Witness ==
    /\ handler = "doWord"
    /\ word = <<BS, "_", "2", ":", "Q">>
    /\ changed = Str(<<"u2082", ":", "Q">>)

\* C4: the expansion of \b:s is s with each character c replaced by
\* codes[\mbf c] where that key exists, and absent exactly when that changes
\* nothing.
C4_BoldCharByChar ==
    (handler = "doWord" /\ IsPrefix(<<BS, "b", ":">>, word)) =>
        changed = Expected(Suffix3, <<BS, "m", "b", "f">>, Symbols)

\* a bold token with a mapped and an unmapped character
C4_Witness ==
    /\ handler = "doWord"
    /\ word = <<BS, "b", ":", "b", "Q">>
    /\ changed = Str(<<"uD835", "uDC1B", "Q">>)

\* C5: a token with one colon that reaches Generic modifier mode expands to
\* its payload with each character c replaced by codes[modifierPrefix c] where
\* that key exists, and to absent exactly when that changes nothing.
C5_GenericModifier ==
    (handler = "doWord" /\ ReachesGeneric /\ Count(word, ":") = 1) =>
        LET colon == CHOOSE i \in 1..Len(word) : word[i] = ":"
        IN changed = Expected(SubSeq(word, colon + 1, Len(word)),
                              SubSeq(word, 1, colon - 1), Symbols)

\* a generic-modifier token with a mapped and an unmapped character
C5_Witness ==
    /\ handler = "doWord"
    /\ word = <<BS, "n", ":", "i", "Q">>
    /\ changed = Str(<<"u220B", "Q">>)

\* C6 as stated: every token with two or more colons after the backslash
\* expands to absent.
C6_TwoColonsAbsent ==
    (handler = "doWord" /\ Count(word, ":") >= 2) => changed.isNull

\* C6 amended: every token with two or more colons that reaches Generic
\* modifier mode expands to absent.
C6_TwoColonsAbsentInGenericMode ==
    (handler = "doWord" /\ ReachesGeneric /\ Count(word, ":") >= 2) => changed.isNull

\* a two-colon token whose first payload character has an entry under its
\* modifier expanded to absent
C6_Witness ==
    /\ handler = "doWord"
    /\ word = <<BS, "n", ":", "i", ":">>
    /\ changed.isNull

\* C7: a token that matches none of the modifier rules expands to the primary
\* table's value for the whole token when it is a key, and to absent exactly
\* when it is not.
C7_DirectLookup ==
    (/\ handler = "doWord"
     /\ SecondChar \notin {"_", "^"}
     /\ ~IsPrefix(<<BS, "i", ":">>, word)
     /\ ~IsPrefix(<<BS, "b", ":">>, word)
     /\ (Count(word, ":") = 0 \/ IsPrefix(<<BS, ":">>, word))) =>
        /\ InTable(Symbols, word) => changed = Str(ValueOf(Symbols, word))
        /\ changed.isNull <=> ~InTable(Symbols, word)

\* a key of the table was expanded to its value
C7_Witness ==
    /\ handler = "doWord"
    /\ word = <<BS, "i", "n">>
    /\ changed = Str(<<"u2208">>)

====
